---- MODULE Spec2Model ----
(***************************************************************************)
(* Advanced-Search-Engine: the SearchEngine orchestrator                   *)
(* (search_engine/engine.py), the Indexer (search_engine/indexer.py), the  *)
(* CacheManager (search_engine/cache/cache_manager.py) and the RedisClient *)
(* (search_engine/cache/redis_client.py) as one state machine.             *)
(*                                                                         *)
(* Text is a sequence of tokens: a word ("cats", "Cats"), a blank (" ") or *)
(* a punctuation mark ("!").  A Python exception is the field exc of the   *)
(* value an operation yields; "none" means the call returned.              *)
(***************************************************************************)
EXTENDS Integers, Sequences, FiniteSets, TLC

VARIABLES
    documents,        \* Indexer.documents: the dict, in insertion order
    is_index_built,   \* Indexer.is_index_built
    tfidf_matrix,     \* Indexer.tfidf_matrix: the contents it was fitted on, row by row
    redis_data,       \* the key space of the Redis server: key -> serialized value
    server_up,        \* whether the Redis server answers
    client_set,       \* RedisClient._client is not None
    has_manager,      \* SearchEngine.cache_manager is not None
    doc_ttl,          \* CacheManager.doc_ttl
    query_ttl,        \* CacheManager.query_ttl
    stats_ttl,        \* CacheManager.stats_ttl
    enable_cache,     \* SearchEngine.enable_cache
    cache_enabled,    \* CacheManager.cache_enabled
    cache_hits,       \* CacheManager.cache_hits
    cache_misses,     \* CacheManager.cache_misses
    ret,              \* the outcome of the call that just returned
    hist,             \* history of the run, read by the properties only
    conc              \* a thread inside a search or get_document call: position and locals

vars == <<documents, is_index_built, tfidf_matrix, redis_data, server_up, client_set,
          has_manager, doc_ttl, query_ttl, stats_ttl,
          enable_cache, cache_enabled, cache_hits, cache_misses, ret, hist,
          conc>>

----------------------------------------------------------------------------
(* Bounds of the model *)

NumDocIds == 1
MaxLimit == 2
MaxCount == 1
MaxBatch == 2

DocIds == 1..NumDocIds
\* the identifiers remove_document is called with: those of DocIds and one never stored
RemoveIds == 1..(NumDocIds + 1)
Limits == 1..MaxLimit
\* the (content, metadata) pairs documents are made of; "None" is metadata=None, "set" is
\* a mapping one of whose values is a Python set
Bodies == { [content |-> <<"cats", "dogs">>, metadata |-> "author"],
            [content |-> <<"cats", "dogs">>, metadata |-> "set"],
            [content |-> <<"dogs">>, metadata |-> "None"] }
Queries == { <<"cats">>, <<" ", "Cats", " ">> }

None == [none |-> TRUE]

----------------------------------------------------------------------------
(* Text *)

\* str.lower() on one token
LowerTok(t) == CASE t = "Cats" -> "cats"
                 [] t = "Dogs" -> "dogs"
                 [] t = "TFIDF" -> "tfidf"
                 [] OTHER -> t

\* str.lower()
Lower(s) == [i \in 1..Len(s) |-> LowerTok(s[i])]

IsSpace(t) == t = " "
IsPunct(t) == t = "!"

RECURSIVE LStrip(_)
LStrip(s) == IF s # <<>> /\ IsSpace(Head(s)) THEN LStrip(Tail(s)) ELSE s

RECURSIVE RStrip(_)
RStrip(s) == IF s # <<>> /\ IsSpace(s[Len(s)]) THEN RStrip(SubSeq(s, 1, Len(s) - 1)) ELSE s

\* str.strip()
Strip(s) == RStrip(LStrip(s))

\* re.sub(r'[^\w\s]', '', s)
RECURSIVE RemovePunct(_)
RemovePunct(s) ==
    IF s = <<>> THEN <<>>
    ELSE IF IsPunct(Head(s)) THEN RemovePunct(Tail(s))
    ELSE <<Head(s)>> \o RemovePunct(Tail(s))

\* re.sub(r'\s+', ' ', s)
RECURSIVE CollapseSpace(_)
CollapseSpace(s) ==
    IF Len(s) < 2 THEN s
    ELSE IF IsSpace(s[1]) /\ IsSpace(s[2]) THEN CollapseSpace(Tail(s))
    ELSE <<Head(s)>> \o CollapseSpace(Tail(s))

\* a preprocessing that leaves the letter case as it is
preprocess_query_keeping_case(query) == Strip(CollapseSpace(RemovePunct(query)))

\* Indexer.preprocess_query
preprocess_query(query) == Strip(CollapseSpace(RemovePunct(Lower(query))))

\* the analyzer of the TfidfVectorizer: lower-cased words, blanks and punctuation dropped
RECURSIVE Tokens(_)
Tokens(s) ==
    IF s = <<>> THEN <<>>
    ELSE IF IsSpace(Head(s)) \/ IsPunct(Head(s)) THEN Tokens(Tail(s))
    ELSE <<LowerTok(Head(s))>> \o Tokens(Tail(s))

\* str(top_n)
Str(n) == CASE n = 0 -> "0" [] n = 1 -> "1" [] n = 2 -> "2" [] n = 3 -> "3"
            [] n = 4 -> "4" [] OTHER -> "n"

----------------------------------------------------------------------------
(* Document *)

\* Document.__init__: metadata or {}
Document(doc_id, content, metadata) ==
    [doc_id |-> doc_id, content |-> content,
     metadata |-> IF metadata = "None" THEN "{}" ELSE metadata]

\* Document.to_dict
to_dict(doc) == [doc_id |-> doc.doc_id, content |-> doc.content, metadata |-> doc.metadata]

\* Document.from_dict on a dict that has doc_id and content: data.get('metadata', {})
from_dict(data) ==
    Document(data.doc_id, data.content,
             IF "metadata" \in DOMAIN data THEN data.metadata ELSE "{}")

----------------------------------------------------------------------------
(* TF-IDF of the vectorizer, in fixed point *)

Range(s) == {s[i] : i \in 1..Len(s)}
Count(t, s) == Cardinality({i \in 1..Len(s) : s[i] = t})

\* 10 * (ln((1 + n) / (1 + df)) + 1), rounded: the smoothed idf of a term found in df of n rows
IdfTable == << <<10>>, <<14, 10>>, <<17, 13, 10>>, <<19, 15, 12, 10>>, <<21, 17, 14, 12, 10>> >>

\* the vocabulary the vectorizer was fitted on
Vocabulary(matrix) == UNION {Range(Tokens(matrix[i])) : i \in 1..Len(matrix)}

DocFreq(t, matrix) == Cardinality({i \in 1..Len(matrix) : t \in Range(Tokens(matrix[i]))})

Idf(t, matrix) == IdfTable[Len(matrix)][DocFreq(t, matrix)]

\* the weight of term t in text s, before normalisation
Weight(t, s, matrix) == Count(t, Tokens(s)) * Idf(t, matrix)

RECURSIVE SumOver(_, _)
SumOver(S, f) ==
    IF S = {} THEN 0
    ELSE LET t == CHOOSE u \in S : TRUE IN f[t] + SumOver(S \ {t}, f)

Dot(a, b, matrix) ==
    SumOver(Vocabulary(matrix),
            [t \in Vocabulary(matrix) |-> Weight(t, a, matrix) * Weight(t, b, matrix)])

\* the cosine of query and row, squared, in percent (rows and query are L2-normalised)
Similarity(query, row, matrix) ==
    LET d == Dot(query, row, matrix) IN
    IF d = 0 THEN 0
    ELSE (100 * d * d) \div (Dot(query, query, matrix) * Dot(row, row, matrix))

\* query_vector.dot(self.tfidf_matrix.T).toarray()[0]
cosine_similarities(query, matrix) ==
    [i \in 1..Len(matrix) |-> Similarity(query, matrix[i], matrix)]

\* np.argsort: indices in ascending order of value, equal values in index order
argsort(a) ==
    LET Before(i, j) == a[i] < a[j] \/ (a[i] = a[j] /\ i < j)
        Rank(i) == Cardinality({j \in 1..Len(a) : Before(j, i)}) + 1
    IN [p \in 1..Len(a) |-> CHOOSE i \in 1..Len(a) : Rank(i) = p]

\* a[-n:] of Python
LastN(a, n) == IF n = 0 \/ n >= Len(a) THEN a ELSE SubSeq(a, Len(a) - n + 1, Len(a))

\* a[::-1]
Reverse(a) == [i \in 1..Len(a) |-> a[Len(a) + 1 - i]]

\* the last top_n indices of the ascending order, not reversed
top_indices_ascending(sims, top_n) == LastN(argsort(sims), top_n)

\* np.argsort(cosine_similarities)[-top_n:][::-1]
top_indices(sims, top_n) == Reverse(LastN(argsort(sims), top_n))

----------------------------------------------------------------------------
(* Indexer: an indexer value is [documents, is_index_built, tfidf_matrix] *)

Ix(docs, built, matrix) == [documents |-> docs, is_index_built |-> built, tfidf_matrix |-> matrix]

DocIdsOf(docs) == {docs[i].doc_id : i \in 1..Len(docs)}

\* self.documents[doc_id]
Lookup(docs, doc_id) == docs[CHOOSE i \in 1..Len(docs) : docs[i].doc_id = doc_id]

\* del self.documents[doc_id]
RECURSIVE Without(_, _)
Without(docs, doc_id) ==
    IF docs = <<>> THEN <<>>
    ELSE IF Head(docs).doc_id = doc_id THEN Tail(docs)
    ELSE <<Head(docs)>> \o Without(Tail(docs), doc_id)

\* an add that reports false for a stored identifier but replaces the stored document
Indexer_add_document_overwriting(ix, document) ==
    IF document.doc_id \in DocIdsOf(ix.documents)
    THEN [ix |-> Ix([i \in 1..Len(ix.documents) |->
                        IF ix.documents[i].doc_id = document.doc_id THEN document
                        ELSE ix.documents[i]],
                    FALSE, ix.tfidf_matrix),
          val |-> FALSE]
    ELSE [ix |-> Ix(Append(ix.documents, document), FALSE, ix.tfidf_matrix), val |-> TRUE]

\* Indexer.add_document
Indexer_add_document(ix, document) ==
    IF document.doc_id \in DocIdsOf(ix.documents)
    THEN [ix |-> ix, val |-> FALSE]
    ELSE [ix |-> Ix(Append(ix.documents, document), FALSE, ix.tfidf_matrix), val |-> TRUE]

\* Indexer.add_documents
RECURSIVE Indexer_add_documents(_, _)
Indexer_add_documents(ix, docs) ==
    IF docs = <<>> THEN [ix |-> ix, val |-> 0]
    ELSE LET a == Indexer_add_document(ix, Head(docs))
             r == Indexer_add_documents(a.ix, Tail(docs))
         IN [ix |-> r.ix, val |-> r.val + (IF a.val THEN 1 ELSE 0)]

\* a removal that leaves the freshness flag as it was
Indexer_remove_document_keeping_flag(ix, doc_id) ==
    IF doc_id \in DocIdsOf(ix.documents)
    THEN [ix |-> Ix(Without(ix.documents, doc_id), ix.is_index_built, ix.tfidf_matrix),
          val |-> TRUE]
    ELSE [ix |-> ix, val |-> FALSE]

\* a removal that marks the index stale also when the identifier is not stored
Indexer_remove_document_always_stale(ix, doc_id) ==
    IF doc_id \in DocIdsOf(ix.documents)
    THEN [ix |-> Ix(Without(ix.documents, doc_id), FALSE, ix.tfidf_matrix), val |-> TRUE]
    ELSE [ix |-> Ix(ix.documents, FALSE, ix.tfidf_matrix), val |-> FALSE]

\* Indexer.remove_document
Indexer_remove_document(ix, doc_id) ==
    IF doc_id \in DocIdsOf(ix.documents)
    THEN [ix |-> Ix(Without(ix.documents, doc_id), FALSE, ix.tfidf_matrix), val |-> TRUE]
    ELSE [ix |-> ix, val |-> FALSE]

\* Indexer.get_document
Indexer_get_document(ix, doc_id) ==
    IF doc_id \in DocIdsOf(ix.documents) THEN Lookup(ix.documents, doc_id) ELSE None

\* a build that fits the vectorizer and sets the flag on an empty store too
Indexer_build_index_on_empty(ix) ==
    [ix |-> Ix(ix.documents, TRUE, [i \in 1..Len(ix.documents) |-> ix.documents[i].content]),
     val |-> TRUE]

\* Indexer.get_stats
Indexer_get_stats(ix) ==
    IF ix.is_index_built
    THEN [num_documents |-> Len(ix.documents), is_index_built |-> TRUE,
          num_terms |-> Cardinality(Vocabulary(ix.tfidf_matrix)),
          index_shape |-> <<Len(ix.tfidf_matrix), Cardinality(Vocabulary(ix.tfidf_matrix))>>]
    ELSE [num_documents |-> Len(ix.documents), is_index_built |-> FALSE]

\* Indexer.build_index
Indexer_build_index(ix) ==
    IF ix.documents = <<>>
    THEN [ix |-> ix, val |-> FALSE]
    ELSE [ix |-> Ix(ix.documents, TRUE,
                    [i \in 1..Len(ix.documents) |-> ix.documents[i].content]),
          val |-> TRUE]

\* the loop of Indexer.search over top_indices: the (document, score) pairs with a
\* positive score; doc_ids[idx] raises IndexError past the end of the key list
RECURSIVE Collect(_, _, _)
Collect(idxs, sims, docs) ==
    IF idxs = <<>> THEN [val |-> <<>>, exc |-> "none"]
    ELSE LET idx == Head(idxs)
             rest == Collect(Tail(idxs), sims, docs)
         IN IF sims[idx] > 0
            THEN IF idx > Len(docs) THEN [val |-> <<>>, exc |-> "IndexError"]
                 ELSE IF rest.exc # "none" THEN rest
                 ELSE [val |-> <<[doc |-> docs[idx], score |-> sims[idx]]>> \o rest.val,
                       exc |-> "none"]
            ELSE rest

\* Indexer.search
Indexer_search(ix, query, top_n) ==
    LET b == IF ix.is_index_built THEN [ix |-> ix, val |-> TRUE] ELSE Indexer_build_index(ix)
    IN IF ~b.val THEN [ix |-> b.ix, val |-> <<>>, exc |-> "none"]
       ELSE LET processed_query == preprocess_query(query)
                sims == cosine_similarities(processed_query, b.ix.tfidf_matrix)
                got == Collect(top_indices(sims, top_n), sims, b.ix.documents)
            IN [ix |-> b.ix, val |-> got.val, exc |-> got.exc]

----------------------------------------------------------------------------
(* RedisClient.  A cache value c is [data, client, hits, misses]: the server's   *)
(* key space, whether RedisClient._client is set, and the CacheManager counters. *)
(* Every operation yields [c, val, exc].                                         *)

Cv(data, client, hits, misses) ==
    [data |-> data, client |-> client, hits |-> hits, misses |-> misses]

Ret(c, val) == [c |-> c, val |-> val, exc |-> "none"]
Raise(c, exc) == [c |-> c, val |-> None, exc |-> exc]

\* whether json.dumps accepts the value: a set inside a document or inside a result list
\* is a TypeError
Serializable(value) ==
    /\ "metadata" \in DOMAIN value => value.metadata # "set"
    /\ "results" \in DOMAIN value =>
          \A i \in 1..Len(value.results) : value.results[i].metadata # "set"

\* what json.dumps writes for a mapping: a tuple among its values ("tuple") is written as
\* an array, which json.loads reads back as a list ("list")
JsonOf(metadata) == IF metadata = "tuple" THEN "list" ELSE metadata

\* json.dumps / json.loads
json_dumps(value) ==
    [json |->
        IF "metadata" \in DOMAIN value
        THEN [value EXCEPT !.metadata = JsonOf(@)]
        ELSE IF "results" \in DOMAIN value
        THEN [value EXCEPT !.results =
                 [i \in 1..Len(@) |-> [@[i] EXCEPT !.metadata = JsonOf(@)]]]
        ELSE value]
json_loads(text) == text.json

\* an empty dict
EmptyDict == [empty |-> TRUE]

\* the truth value Python gives a value a lookup returned: None and {} are false
Truthy(value) == value # None /\ value # EmptyDict

\* RedisClient.client: connect() when _client is None, ConnectionError when that fails
RedisClient_client(c) ==
    IF c.client \/ server_up
    THEN Ret([c EXCEPT !.client = TRUE], TRUE)
    ELSE Raise(c, "ConnectionError")

\* a key that is a Python tuple, not a string: redis-py refuses to encode it with a
\* redis.DataError, which is a redis.RedisError
IsTupleKey(key) == key[1] = "tuple"

\* RedisClient.get
RedisClient_get(c, key) ==
    LET cl == RedisClient_client(c) IN
    IF cl.exc # "none" THEN cl
    ELSE IF ~server_up \/ IsTupleKey(key) THEN Ret(cl.c, None)
    ELSE IF key \in DOMAIN cl.c.data THEN Ret(cl.c, json_loads(cl.c.data[key]))
    ELSE Ret(cl.c, None)

\* what the server keeps for a key: the text and the seconds it has left, NoExpiry when the
\* key was written by SET and not by SETEX
NoExpiry == -1
Stored(value, seconds) == [json |-> json_dumps(value).json, ttl |-> seconds]

\* RedisClient.set: "if expiry:" chooses setex, which the server refuses for an expiry
\* below 1 with a ResponseError
RedisClient_set(c, key, value, expiry) ==
    LET cl == RedisClient_client(c) IN
    IF ~Serializable(value) THEN Ret(c, FALSE)
    ELSE IF cl.exc # "none" THEN cl
    ELSE IF ~server_up \/ IsTupleKey(key) THEN Ret(cl.c, FALSE)
    ELSE IF expiry # 0
         THEN IF expiry < 0 THEN Ret(cl.c, FALSE)
              ELSE Ret([cl.c EXCEPT !.data = (key :> Stored(value, expiry)) @@ cl.c.data], TRUE)
    ELSE Ret([cl.c EXCEPT !.data = (key :> Stored(value, NoExpiry)) @@ cl.c.data], TRUE)

\* RedisClient.delete: bool(number of keys removed)
RedisClient_delete(c, key) ==
    LET cl == RedisClient_client(c) IN
    IF cl.exc # "none" THEN cl
    ELSE IF ~server_up THEN Ret(cl.c, FALSE)
    ELSE IF key \in DOMAIN cl.c.data
         THEN Ret([cl.c EXCEPT !.data = [k \in DOMAIN cl.c.data \ {key} |-> cl.c.data[k]]], TRUE)
         ELSE Ret(cl.c, FALSE)

\* keys_pattern taking the format and the prefix it is handed as one pattern
RedisClient_keys_pattern_formatting(c, args) ==
    LET cl == RedisClient_client(c) IN
    IF cl.exc # "none" THEN cl
    ELSE IF ~server_up THEN Ret(cl.c, {})
    ELSE Ret(cl.c, {k \in DOMAIN cl.c.data : k[1] = args[Len(args)][1]})

\* RedisClient.keys_pattern(self, pattern), called with the positional arguments args;
\* a pattern is <<prefix, "*">>
RedisClient_keys_pattern(c, args) ==
    IF Len(args) # 1 THEN Raise(c, "TypeError")
    ELSE LET cl == RedisClient_client(c) IN
         IF cl.exc # "none" THEN cl
         ELSE IF ~server_up THEN Ret(cl.c, {})
         ELSE Ret(cl.c, {k \in DOMAIN cl.c.data : k[1] = args[1][1]})

----------------------------------------------------------------------------
(* CacheManager *)

DOC_PREFIX == "doc:"
QUERY_PREFIX == "query:"

\* CacheManager.DEFAULT_DOC_TTL, DEFAULT_QUERY_TTL
DEFAULT_DOC_TTL == 86400
DEFAULT_QUERY_TTL == 3600
DEFAULT_STATS_TTL == 300

STATS_PREFIX == "stats:"

\* the key as the string "%s engine_stats" % STATS_PREFIX would be
StatsKey_formatted == <<STATS_PREFIX, "engine_stats">>

\* key = "%s engine_stats", self.STATS_PREFIX: a tuple of two strings
StatsKey == <<"tuple", "%s engine_stats", STATS_PREFIX>>

\* hashlib.md5(...).hexdigest(): one digest per text
md5(text) == <<"md5">> \o text

\* a key derivation that leaves the limit out of the digest
CacheManager_generate_query_key_without_limit(query, top_n) ==
    LET normalized_query == Strip(Lower(query))
    IN <<QUERY_PREFIX>> \o md5(normalized_query)

\* CacheManager._generate_query_key
CacheManager_generate_query_key(query, top_n) ==
    LET normalized_query == Strip(Lower(query))
    IN <<QUERY_PREFIX>> \o md5(normalized_query \o <<":", Str(top_n)>>)

\* CacheManager._generate_doc_key
CacheManager_generate_doc_key(doc_id) == <<DOC_PREFIX, Str(doc_id)>>

\* cache_document without the enabled test of its first statement
CacheManager_cache_document_while_disabled(c, doc_id, document_data) ==
    RedisClient_set(c, CacheManager_generate_doc_key(doc_id), document_data, doc_ttl)

\* CacheManager.cache_document
CacheManager_cache_document(c, doc_id, document_data) ==
    IF ~cache_enabled THEN Ret(c, FALSE)
    ELSE RedisClient_set(c, CacheManager_generate_doc_key(doc_id), document_data,
                         doc_ttl)

\* CacheManager.get_cached_document
CacheManager_get_cached_document(c, doc_id) ==
    IF ~cache_enabled THEN Ret(c, None)
    ELSE LET g == RedisClient_get(c, CacheManager_generate_doc_key(doc_id)) IN
         IF g.exc # "none" THEN g
         ELSE IF Truthy(g.val) THEN Ret([g.c EXCEPT !.hits = @ + 1], g.val)
         ELSE Ret([g.c EXCEPT !.misses = @ + 1], None)

\* CacheManager.cache_query_results
CacheManager_cache_query_results(c, query, results, top_n) ==
    IF ~cache_enabled THEN Ret(c, FALSE)
    ELSE RedisClient_set(c, CacheManager_generate_query_key(query, top_n),
                         [results |-> results, query |-> query, top_n |-> top_n],
                         query_ttl)

\* CacheManager.get_cached_query_results: val is [found, results], found FALSE for None
CacheManager_get_cached_query_results(c, query, top_n) ==
    IF ~cache_enabled THEN Ret(c, [found |-> FALSE, results |-> <<>>])
    ELSE LET g == RedisClient_get(c, CacheManager_generate_query_key(query, top_n)) IN
         IF g.exc # "none" THEN g
         ELSE IF g.val # None
              THEN Ret([g.c EXCEPT !.hits = @ + 1], [found |-> TRUE, results |-> g.val.results])
              ELSE Ret([g.c EXCEPT !.misses = @ + 1], [found |-> FALSE, results |-> <<>>])

\* an invalidation that counts itself as a miss
CacheManager_invalidate_document_counting(c, doc_id) ==
    LET d == RedisClient_delete(c, CacheManager_generate_doc_key(doc_id))
    IN [d EXCEPT !.c.misses = @ + 1]

\* CacheManager.invalidate_document
CacheManager_invalidate_document(c, doc_id) ==
    RedisClient_delete(c, CacheManager_generate_doc_key(doc_id))

\* the loop "for key in keys: self.redis.delete(key)"
RECURSIVE DeleteEach(_, _)
DeleteEach(c, keys) ==
    IF keys = {} THEN Ret(c, TRUE)
    ELSE LET key == CHOOSE k \in keys : TRUE
             d == RedisClient_delete(c, key)
         IN IF d.exc # "none" THEN d ELSE DeleteEach(d.c, keys \ {key})

\* CacheManager.invalidate_all_queries: keys_pattern("%s*", self.QUERY_PREFIX)
CacheManager_invalidate_all_queries(c) ==
    LET keys == RedisClient_keys_pattern(c, << <<"%s*">>, <<QUERY_PREFIX>> >>) IN
    IF keys.exc # "none" THEN keys
    ELSE IF keys.val = {} THEN Ret(keys.c, TRUE)
    ELSE DeleteEach(keys.c, keys.val)

\* CacheManager.invalidate_all_documents: keys_pattern("%s*", self.DOC_PREFIX)
CacheManager_invalidate_all_documents(c) ==
    LET keys == RedisClient_keys_pattern(c, << <<"%s*">>, <<DOC_PREFIX>> >>) IN
    IF keys.exc # "none" THEN keys
    ELSE IF keys.val = {} THEN Ret(keys.c, TRUE)
    ELSE DeleteEach(keys.c, keys.val)

\* CacheManager.invalidate_all: invalidate_all_documents() and invalidate_all_queries()
CacheManager_invalidate_all(c) ==
    LET d == CacheManager_invalidate_all_documents(c) IN
    IF d.exc # "none" \/ ~d.val THEN d ELSE CacheManager_invalidate_all_queries(d.c)

\* CacheManager.cache_stats
CacheManager_cache_stats(c, stats_data) ==
    IF ~cache_enabled THEN Ret(c, FALSE)
    ELSE RedisClient_set(c, StatsKey, stats_data, stats_ttl)

\* CacheManager.get_cached_stats
CacheManager_get_cached_stats(c) ==
    IF ~cache_enabled THEN Ret(c, None)
    ELSE RedisClient_get(c, StatsKey)

\* CacheManager.get_cache_metrics
CacheManager_get_cache_metrics(c) ==
    [hits |-> c.hits, misses |-> c.misses, total |-> c.hits + c.misses,
     cache_enabled |-> cache_enabled]

----------------------------------------------------------------------------
(* SearchEngine: every operation yields [ix, c, val, exc] *)

Out(ix, c, val) == [ix |-> ix, c |-> c, val |-> val, exc |-> "none"]
Exc(ix, c, exc) == [ix |-> ix, c |-> c, val |-> None, exc |-> exc]

\* "self.enable_cache and self.cache_manager"
UseCache == enable_cache /\ has_manager

\* SearchEngine.index_document
SearchEngine_index_document(ix, c, doc_id, content, metadata) ==
    LET doc == Document(doc_id, content, metadata)
        result == Indexer_add_document(ix, doc)
    IN IF result.val /\ UseCache
       THEN LET w == CacheManager_cache_document(c, doc_id, to_dict(doc)) IN
            IF w.exc # "none" THEN Exc(result.ix, w.c, w.exc)
            ELSE LET inv == CacheManager_invalidate_all_queries(w.c) IN
                 IF inv.exc # "none" THEN Exc(result.ix, inv.c, inv.exc)
                 ELSE Out(result.ix, inv.c, result.val)
       ELSE Out(result.ix, c, result.val)

\* the first loop of index_documents: Document.from_dict, records without doc_id or
\* content skipped
RECURSIVE ParseAll(_)
ParseAll(documents_data) ==
    IF documents_data = <<>> THEN <<>>
    ELSE LET data == Head(documents_data) IN
         IF {"doc_id", "content"} \subseteq DOMAIN data
         THEN <<from_dict(data)>> \o ParseAll(Tail(documents_data))
         ELSE ParseAll(Tail(documents_data))

\* the loop "for doc in documents: self.cache_manager.cache_document(...)"
RECURSIVE CacheEach(_, _)
CacheEach(c, docs) ==
    IF docs = <<>> THEN Ret(c, TRUE)
    ELSE LET w == CacheManager_cache_document(c, Head(docs).doc_id, to_dict(Head(docs))) IN
         IF w.exc # "none" THEN w ELSE CacheEach(w.c, Tail(docs))

\* SearchEngine.index_documents
SearchEngine_index_documents(ix, c, documents_data) ==
    LET docs == ParseAll(documents_data)
        count == Indexer_add_documents(ix, docs)
    IN IF count.val > 0 /\ UseCache
       THEN LET w == CacheEach(c, docs) IN
            IF w.exc # "none" THEN Exc(count.ix, w.c, w.exc)
            ELSE LET inv == CacheManager_invalidate_all_queries(w.c) IN
                 IF inv.exc # "none" THEN Exc(count.ix, inv.c, inv.exc)
                 ELSE Out(count.ix, inv.c, count.val)
       ELSE Out(count.ix, c, count.val)

\* SearchEngine.remove_document
SearchEngine_remove_document(ix, c, doc_id) ==
    LET result == Indexer_remove_document(ix, doc_id)
    IN IF result.val /\ UseCache
       THEN LET d == CacheManager_invalidate_document(c, doc_id) IN
            IF d.exc # "none" THEN Exc(result.ix, d.c, d.exc)
            ELSE LET inv == CacheManager_invalidate_all_queries(d.c) IN
                 IF inv.exc # "none" THEN Exc(result.ix, inv.c, inv.exc)
                 ELSE Out(result.ix, inv.c, result.val)
       ELSE Out(result.ix, c, result.val)

\* the second half of SearchEngine.get_document: the indexer, then the backfill
GetFromIndexer(ix, c, doc_id) ==
    LET doc == Indexer_get_document(ix, doc_id) IN
    IF doc # None /\ UseCache
    THEN LET w == CacheManager_cache_document(c, doc_id, to_dict(doc)) IN
         IF w.exc # "none" THEN Exc(ix, w.c, w.exc) ELSE Out(ix, w.c, doc)
    ELSE Out(ix, c, doc)

\* SearchEngine.get_document
SearchEngine_get_document(ix, c, doc_id) ==
    IF UseCache
    THEN LET cached_doc == CacheManager_get_cached_document(c, doc_id) IN
         IF cached_doc.exc # "none" THEN Exc(ix, cached_doc.c, cached_doc.exc)
         ELSE IF cached_doc.val # None THEN Out(ix, cached_doc.c, from_dict(cached_doc.val))
         ELSE GetFromIndexer(ix, cached_doc.c, doc_id)
    ELSE GetFromIndexer(ix, c, doc_id)

\* the result records of SearchEngine.search
formatted_results(results) ==
    [i \in 1..Len(results) |->
        [doc_id |-> results[i].doc.doc_id, content |-> results[i].doc.content,
         metadata |-> results[i].doc.metadata, score |-> results[i].score]]

\* the second half of SearchEngine.search: build, rank, format, write to the cache
SearchIndex(ix, c, query, top_n) ==
    LET b == IF ix.is_index_built THEN ix ELSE Indexer_build_index(ix).ix
        results == Indexer_search(b, query, top_n)
    IN IF results.exc # "none" THEN Exc(results.ix, c, results.exc)
       ELSE LET formatted == formatted_results(results.val) IN
            IF UseCache
            THEN LET w == CacheManager_cache_query_results(c, query, formatted, top_n) IN
                 IF w.exc # "none" THEN Exc(results.ix, w.c, w.exc)
                 ELSE Out(results.ix, w.c, formatted)
            ELSE Out(results.ix, c, formatted)

\* SearchEngine.search; "if cached_results:" is false for None and for an empty list
SearchEngine_search(ix, c, query, top_n) ==
    IF UseCache
    THEN LET cached_results == CacheManager_get_cached_query_results(c, query, top_n) IN
         IF cached_results.exc # "none" THEN Exc(ix, cached_results.c, cached_results.exc)
         ELSE IF cached_results.val.found /\ cached_results.val.results # <<>>
              THEN Out(ix, cached_results.c, cached_results.val.results)
              ELSE SearchIndex(ix, cached_results.c, query, top_n)
    ELSE SearchIndex(ix, c, query, top_n)

\* SearchEngine.get_stats
SearchEngine_get_stats(ix, c) ==
    LET cached_stats == IF UseCache THEN CacheManager_get_cached_stats(c) ELSE Ret(c, None)
        stats == [indexer |-> Indexer_get_stats(ix), ranker_type |-> "TF-IDF Ranker"]
    IN IF cached_stats.exc # "none" THEN Exc(ix, cached_stats.c, cached_stats.exc)
       ELSE IF cached_stats.val # None THEN Out(ix, cached_stats.c, cached_stats.val)
       ELSE IF UseCache
            THEN LET full == [indexer |-> stats.indexer, ranker_type |-> stats.ranker_type,
                              cache |-> CacheManager_get_cache_metrics(cached_stats.c)]
                     w == CacheManager_cache_stats(cached_stats.c, full)
                 IN IF w.exc # "none" THEN Exc(ix, w.c, w.exc) ELSE Out(ix, w.c, full)
            ELSE Out(ix, c, [indexer |-> stats.indexer, ranker_type |-> stats.ranker_type,
                             cache_enabled |-> FALSE])

\* RankerFactory.create_ranker: the name of the ranker made, or ValueError
create_ranker(ranker_type) ==
    IF LowerTok(ranker_type) = "tfidf" THEN [val |-> "TF-IDF Ranker", exc |-> "none"]
    ELSE [val |-> None, exc |-> "ValueError"]

\* SearchEngine.change_ranker: only ValueError is caught
SearchEngine_change_ranker(ix, c, ranker_type) ==
    IF create_ranker(ranker_type).exc = "ValueError" THEN Out(ix, c, FALSE)
    ELSE IF UseCache
         THEN LET inv == CacheManager_invalidate_all_queries(c)
              IN IF inv.exc # "none" THEN Exc(ix, inv.c, inv.exc) ELSE Out(ix, inv.c, TRUE)
         ELSE Out(ix, c, TRUE)

\* SearchEngine.clear_cache
SearchEngine_clear_cache(ix, c) ==
    IF UseCache
    THEN LET result == CacheManager_invalidate_all(c)
         IN IF result.exc # "none" THEN Exc(ix, result.c, result.exc)
            ELSE Out(ix, result.c, result.val)
    ELSE Out(ix, c, FALSE)

----------------------------------------------------------------------------
(* The state machine *)

CurIx == Ix(documents, is_index_built, tfidf_matrix)
CurC == Cv(redis_data, client_set, cache_hits, cache_misses)

QueryKeys(data) == {k \in DOMAIN data : k[1] = QUERY_PREFIX}
DocKeys(data) == {k \in DOMAIN data : k[1] = DOC_PREFIX}

\* the records handed to index_documents: complete, without metadata, without content
DataRecords ==
    {[doc_id |-> d, content |-> b.content, metadata |-> b.metadata] : d \in DocIds, b \in Bodies}
    \cup {[doc_id |-> d, content |-> <<"dogs">>] : d \in DocIds}
    \cup {[doc_id |-> d] : d \in DocIds}

Batches == UNION {[1..n -> DataRecords] : n \in 1..MaxBatch}

\* the counters stay within the model's bound
CanCount == cache_hits < MaxCount /\ cache_misses < MaxCount

\* no thread is inside Indexer.search, SearchEngine.search or SearchEngine.get_document
Idle ==
    [pc |-> "idle", query |-> <<>>, top_n |-> 0, sims |-> <<>>, matrix |-> <<>>,
     results |-> <<>>, doc_id |-> 0, doc |-> None, corpus |-> <<>>]

\* no call has just returned
NoRet == [op |-> "none", args |-> <<>>, val |-> None, exc |-> "none", hit |-> FALSE]

\* SearchEngine.__init__ and CacheManager.__init__ with the three TTL arguments: the
\* RedisClient connects once; a failed connect leaves _client None
InitWith(d_ttl, q_ttl, s_ttl) ==
    /\ documents = <<>>
    /\ is_index_built = FALSE
    /\ tfidf_matrix = <<>>
    /\ redis_data = <<>>
    /\ server_up \in BOOLEAN
    /\ has_manager \in BOOLEAN
    /\ client_set = (has_manager /\ server_up)
    /\ enable_cache = has_manager
    /\ doc_ttl = d_ttl
    /\ query_ttl = q_ttl
    /\ stats_ttl = s_ttl
    /\ cache_enabled = TRUE
    /\ cache_hits = 0
    /\ cache_misses = 0
    /\ ret = NoRet
    /\ hist = [removed |-> {}, seen |-> {}, never_up |-> ~server_up, kept |-> {},
               offered |-> {}, stats_last |-> -1, stats_prev |-> -1, raced |-> FALSE,
               gone |-> {}]
    /\ conc = Idle

\* SearchEngine.__init__: CacheManager(redis_client=redis_client), the default TTLs
Init == InitWith(DEFAULT_DOC_TTL, DEFAULT_QUERY_TTL, DEFAULT_STATS_TTL)

\* the state after a call that yielded r
Commit(r, op, args, h) ==
    /\ documents' = r.ix.documents
    /\ is_index_built' = r.ix.is_index_built
    /\ tfidf_matrix' = r.ix.tfidf_matrix
    /\ redis_data' = r.c.data
    /\ client_set' = r.c.client
    /\ cache_hits' = r.c.hits
    /\ cache_misses' = r.c.misses
    /\ ret' = [op |-> op, args |-> args, val |-> r.val, exc |-> r.exc,
               hit |-> r.c.hits > cache_hits]
    /\ hist' = h
    /\ UNCHANGED <<server_up,
                   has_manager, doc_ttl, query_ttl, stats_ttl, enable_cache, cache_enabled, conc>>

\* history: an identifier that entered the store is a new document, neither seen nor removed
Added(r) ==
    LET new == DocIdsOf(r.ix.documents) \ DocIdsOf(documents)
    IN [hist EXCEPT !.removed = @ \ new, !.seen = @ \ new, !.gone = @ \ new]

IndexDocument(doc_id, content, metadata) ==
    \E r \in {SearchEngine_index_document(CurIx, CurC, doc_id, content, metadata)} :
       Commit(r, "index_document", <<doc_id>>, Added(r))

IndexDocuments(documents_data) ==
    \E r \in {SearchEngine_index_documents(CurIx, CurC, documents_data)} :
       Commit(r, "index_documents", <<>>, Added(r))

RemoveDocument(doc_id) ==
    \E r \in {SearchEngine_remove_document(CurIx, CurC, doc_id)} :
       Commit(r, "remove_document", <<doc_id>>,
              IF r.exc = "none" /\ r.val = TRUE
              THEN [hist EXCEPT !.removed = @ \cup ({doc_id} \cap hist.seen),
                                !.gone = @ \cup {doc_id}]
              ELSE hist)

GetDocument(doc_id) ==
    /\ CanCount
    /\ \E r \in {SearchEngine_get_document(CurIx, CurC, doc_id)} :
          Commit(r, "get_document", <<doc_id>>, hist)

Search(query, top_n) ==
    /\ CanCount
    /\ \E r \in {SearchEngine_search(CurIx, CurC, query, top_n)} :
          Commit(r, "search", <<query, top_n>>,
                 IF r.exc = "none"
                 THEN [hist EXCEPT !.seen = @ \cup ({r.val[i].doc_id : i \in 1..Len(r.val)}
                                                     \ hist.removed)]
                 ELSE hist)

GetStats ==
    \E r \in {SearchEngine_get_stats(CurIx, CurC)} : Commit(r, "get_stats", <<>>, hist)

\* the names handed to change_ranker
RankerTypes == {"TFIDF", "bm25"}

ChangeRanker(ranker_type) ==
    \E r \in {SearchEngine_change_ranker(CurIx, CurC, ranker_type)} :
       Commit(r, "change_ranker", <<ranker_type>>, hist)

ClearCache ==
    \E r \in {SearchEngine_clear_cache(CurIx, CurC)} : Commit(r, "clear_cache", <<>>, hist)

\* SearchEngine.enable_caching
EnableCaching ==
    /\ has_manager
    /\ enable_cache' = TRUE
    /\ cache_enabled' = TRUE
    /\ ret' = [op |-> "enable_caching", args |-> <<>>, val |-> TRUE, exc |-> "none",
               hit |-> FALSE]
    /\ UNCHANGED <<documents, is_index_built, tfidf_matrix, redis_data, server_up, client_set,
                   has_manager, doc_ttl, query_ttl, stats_ttl,
                   cache_hits, cache_misses, hist, conc>>

\* SearchEngine.disable_caching
DisableCaching ==
    /\ has_manager
    /\ enable_cache' = FALSE
    /\ cache_enabled' = FALSE
    /\ ret' = [op |-> "disable_caching", args |-> <<>>, val |-> TRUE, exc |-> "none",
               hit |-> FALSE]
    /\ UNCHANGED <<documents, is_index_built, tfidf_matrix, redis_data, server_up, client_set,
                   has_manager, doc_ttl, query_ttl, stats_ttl,
                   cache_hits, cache_misses, hist, conc>>

\* SearchEngine.reset_cache_metrics, CacheManager.reset_metrics
ResetCacheMetrics ==
    /\ has_manager
    /\ cache_hits' = 0
    /\ cache_misses' = 0
    /\ ret' = [op |-> "reset_cache_metrics", args |-> <<>>, val |-> TRUE, exc |-> "none",
               hit |-> FALSE]
    /\ UNCHANGED <<documents, is_index_built, tfidf_matrix, redis_data, server_up, client_set,
                   has_manager, doc_ttl, query_ttl, stats_ttl,
                   enable_cache, cache_enabled, hist, conc>>

\* the Redis server stops answering: every command fails with a redis.RedisError
ServerDown ==
    /\ server_up
    /\ server_up' = FALSE
    /\ ret' = NoRet
    /\ UNCHANGED <<documents, is_index_built, tfidf_matrix, redis_data, client_set,
                   has_manager, doc_ttl, query_ttl, stats_ttl,
                   enable_cache, cache_enabled, cache_hits, cache_misses, hist, conc>>

\* the Redis server answers again
ServerUp ==
    /\ ~server_up
    /\ server_up' = TRUE
    /\ hist' = [hist EXCEPT !.never_up = FALSE]
    /\ ret' = NoRet
    /\ UNCHANGED <<documents, is_index_built, tfidf_matrix, redis_data, client_set,
                   has_manager, doc_ttl, query_ttl, stats_ttl,
                   enable_cache, cache_enabled, cache_hits, cache_misses, conc>>

\* an entry written with setex reaches its TTL
Expire(key) ==
    /\ key \in DOMAIN redis_data
    /\ redis_data[key].ttl # NoExpiry
    /\ redis_data' = [k \in DOMAIN redis_data \ {key} |-> redis_data[k]]
    /\ ret' = NoRet
    /\ UNCHANGED <<documents, is_index_built, tfidf_matrix, server_up, client_set,
                   has_manager, doc_ttl, query_ttl, stats_ttl,
                   enable_cache, cache_enabled, cache_hits, cache_misses, hist, conc>>

Next ==
    \/ \E d \in DocIds, b \in Bodies : IndexDocument(d, b.content, b.metadata)
    \/ \E b \in Batches : IndexDocuments(b)
    \/ \E d \in RemoveIds : RemoveDocument(d)
    \/ \E d \in DocIds : GetDocument(d)
    \/ \E q \in Queries, n \in Limits : Search(q, n)
    \/ GetStats
    \/ \E t \in RankerTypes : ChangeRanker(t)
    \/ ClearCache
    \/ EnableCaching
    \/ DisableCaching
    \/ ResetCacheMetrics
    \/ ServerDown
    \/ ServerUp
    \/ \E k \in DOMAIN redis_data : Expire(k)

Spec == Init /\ [][Next]_vars

----------------------------------------------------------------------------
(* One Indexer called from several threads.  add_document, remove_document and   *)
(* build_index run to completion between two steps of a thread that is inside    *)
(* Indexer.search; the Indexer holds no lock.                                    *)

NumIxDocIds == 2
IxDocIds == 1..NumIxDocIds

CacheVars == <<redis_data, server_up, client_set,
               has_manager, doc_ttl, query_ttl, stats_ttl, enable_cache, cache_enabled,
               cache_hits, cache_misses, hist>>

IxRet(op, args, val, exc) == [op |-> op, args |-> args, val |-> val, exc |-> exc, hit |-> FALSE]

SetIx(ix) ==
    /\ documents' = ix.documents
    /\ is_index_built' = ix.is_index_built
    /\ tfidf_matrix' = ix.tfidf_matrix

IxAddDocument(doc_id, content, metadata) ==
    \E r \in {Indexer_add_document(CurIx, Document(doc_id, content, metadata))} :
        /\ SetIx(r.ix)
        /\ ret' = IxRet("Indexer.add_document", <<doc_id>>, r.val, "none")
        /\ UNCHANGED <<CacheVars, conc>>

IxRemoveDocument(doc_id) ==
    \E r \in {Indexer_remove_document(CurIx, doc_id)} :
        /\ SetIx(r.ix)
        /\ ret' = IxRet("Indexer.remove_document", <<doc_id>>, r.val, "none")
        /\ UNCHANGED <<CacheVars, conc>>

IxBuildIndex ==
    \E r \in {Indexer_build_index(CurIx)} :
        /\ SetIx(r.ix)
        /\ ret' = IxRet("Indexer.build_index", <<>>, r.val, "none")
        /\ UNCHANGED <<CacheVars, conc>>

\* Indexer.search, lines 157-161: build the index if it is stale, return [] on an empty store
IxSearchBegin(query, top_n) ==
    /\ conc.pc = "idle"
    /\ \E b \in {IF is_index_built THEN [ix |-> CurIx, val |-> TRUE]
                 ELSE Indexer_build_index(CurIx)} :
        /\ SetIx(b.ix)
        /\ IF b.val
           THEN /\ conc' = [Idle EXCEPT !.pc = "score", !.query = query, !.top_n = top_n]
                /\ ret' = NoRet
           ELSE /\ conc' = Idle
                /\ ret' = IxRet("Indexer.search", <<query, top_n, tfidf_matrix>>, <<>>, "none")
        /\ UNCHANGED CacheVars

\* Indexer.search, lines 163-167: the query vector and its product with self.tfidf_matrix
IxSearchScore ==
    /\ conc.pc = "score"
    /\ conc' = [conc EXCEPT !.pc = "collect",
                            !.sims = cosine_similarities(preprocess_query(conc.query),
                                                         tfidf_matrix),
                            !.matrix = tfidf_matrix]
    /\ ret' = NoRet
    /\ UNCHANGED <<documents, is_index_built, tfidf_matrix, CacheVars>>

\* Indexer.search, lines 169-178: the key list of self.documents, the top indices, the loop
IxSearchCollect ==
    /\ conc.pc = "collect"
    /\ \E got \in {Collect(top_indices(conc.sims, conc.top_n), conc.sims, documents)} :
        ret' = IxRet("Indexer.search", <<conc.query, conc.top_n, conc.matrix>>,
                     got.val, got.exc)
    /\ conc' = Idle
    /\ UNCHANGED <<documents, is_index_built, tfidf_matrix, CacheVars>>

InitConc == Init /\ ~has_manager /\ ~server_up

NextConc ==
    \/ \E d \in IxDocIds, b \in Bodies : IxAddDocument(d, b.content, b.metadata)
    \/ \E d \in IxDocIds : IxRemoveDocument(d)
    \/ IxBuildIndex
    \/ \E q \in Queries, n \in Limits : IxSearchBegin(q, n)
    \/ IxSearchScore
    \/ IxSearchCollect

SpecConc == InitConc /\ [][NextConc]_vars

----------------------------------------------------------------------------
(* One Indexer called from one thread, every call run to completion *)

NumSeqDocIds == 3
MaxSeqLimit == 2
MaxSeqBatch == 2

SeqDocIds == 1..NumSeqDocIds
SeqLimits == 0..MaxSeqLimit
SeqContents == { <<"cats", "dogs">>, <<"cats">> }
SeqQueries == Queries \cup { <<"dogs">> }
SeqBatches ==
    UNION {[1..n -> {Document(d, content, "None") : d \in SeqDocIds, content \in SeqContents}] :
             n \in 1..MaxSeqBatch}

IxAddDocuments(docs) ==
    \E r \in {Indexer_add_documents(CurIx, docs)} :
        /\ SetIx(r.ix)
        /\ ret' = IxRet("Indexer.add_documents", <<>>, r.val, "none")
        /\ UNCHANGED <<CacheVars, conc>>

IxGetDocument(doc_id) ==
    /\ ret' = IxRet("Indexer.get_document", <<doc_id>>, Indexer_get_document(CurIx, doc_id),
                    "none")
    /\ UNCHANGED <<documents, is_index_built, tfidf_matrix, CacheVars, conc>>

\* Indexer.search, the whole call; the third argument recorded is the matrix it ranked on
IxSearch(query, top_n) ==
    \E r \in {Indexer_search(CurIx, query, top_n)} :
        /\ SetIx(r.ix)
        /\ ret' = IxRet("Indexer.search", <<query, top_n, r.ix.tfidf_matrix>>, r.val, r.exc)
        /\ UNCHANGED <<CacheVars, conc>>

NextSeq ==
    \/ \E d \in SeqDocIds, content \in SeqContents : IxAddDocument(d, content, "None")
    \/ \E b \in SeqBatches : IxAddDocuments(b)
    \/ \E d \in SeqDocIds : IxRemoveDocument(d)
    \/ \E d \in SeqDocIds : IxGetDocument(d)
    \/ IxBuildIndex
    \/ \E q \in SeqQueries, n \in SeqLimits : IxSearch(q, n)

SpecSeq == InitConc /\ [][NextSeq]_vars

----------------------------------------------------------------------------
(* The CacheManager called on its own, over a RedisClient *)

NumCmDocIds == 2

CmDocIds == 1..NumCmDocIds
\* what cache_document is given: the dict of a document, or an empty dict
CmDocData(doc_id) ==
    {to_dict(Document(doc_id, <<"dogs">>, m)) : m \in {"author", "tuple", "set"}}
    \cup {EmptyDict}
\* what cache_query_results is given
CmResults ==
    { <<>>,
      <<[doc_id |-> 1, content |-> <<"dogs">>, metadata |-> "author", score |-> 50]>> }
CmStats == { [indexer |-> Indexer_get_stats(Ix(<<>>, FALSE, <<>>)),
              ranker_type |-> "TF-IDF Ranker"] }

\* history: the keys handed to cache_* while the manager was disabled, and the keys the
\* cache held when it was disabled and that were not written since
Written(r, key) ==
    IF ~cache_enabled THEN [hist EXCEPT !.offered = @ \cup {key}]
    ELSE IF r.exc = "none" /\ r.val = TRUE
    THEN [hist EXCEPT !.offered = @ \ {key}, !.kept = @ \ {key}]
    ELSE hist

\* the state after a CacheManager call that yielded r
CmCommit(r, op, args, h) ==
    /\ redis_data' = r.c.data
    /\ client_set' = r.c.client
    /\ cache_hits' = r.c.hits
    /\ cache_misses' = r.c.misses
    /\ ret' = [op |-> op, args |-> args, val |-> r.val, exc |-> r.exc,
               hit |-> r.c.hits > cache_hits]
    /\ hist' = h
    /\ UNCHANGED <<documents, is_index_built, tfidf_matrix, server_up,
                   has_manager, doc_ttl, query_ttl, stats_ttl,
                   enable_cache, cache_enabled, conc>>

CmCacheDocument(doc_id, data) ==
    \E r \in {CacheManager_cache_document(CurC, doc_id, data)} :
        CmCommit(r, "cache_document", <<doc_id, data>>,
                 Written(r, CacheManager_generate_doc_key(doc_id)))

CmGetCachedDocument(doc_id) ==
    /\ CanCount
    /\ \E r \in {CacheManager_get_cached_document(CurC, doc_id)} :
          CmCommit(r, "get_cached_document", <<doc_id>>, hist)

CmCacheQueryResults(query, results, top_n) ==
    \E r \in {CacheManager_cache_query_results(CurC, query, results, top_n)} :
        CmCommit(r, "cache_query_results", <<query, results, top_n>>,
                 Written(r, CacheManager_generate_query_key(query, top_n)))

CmGetCachedQueryResults(query, top_n) ==
    /\ CanCount
    /\ \E r \in {CacheManager_get_cached_query_results(CurC, query, top_n)} :
          CmCommit(r, "get_cached_query_results", <<query, top_n>>, hist)

CmCacheStats(stats_data) ==
    \E r \in {CacheManager_cache_stats(CurC, stats_data)} :
        CmCommit(r, "cache_stats", <<stats_data>>, hist)

CmGetCachedStats ==
    \E r \in {CacheManager_get_cached_stats(CurC)} : CmCommit(r, "get_cached_stats", <<>>, hist)

CmInvalidateDocument(doc_id) ==
    \E r \in {CacheManager_invalidate_document(CurC, doc_id)} :
        CmCommit(r, "invalidate_document", <<doc_id>>, hist)

CmInvalidateAllDocuments ==
    \E r \in {CacheManager_invalidate_all_documents(CurC)} :
        CmCommit(r, "invalidate_all_documents", <<>>, hist)

CmInvalidateAllQueries ==
    \E r \in {CacheManager_invalidate_all_queries(CurC)} :
        CmCommit(r, "invalidate_all_queries", <<>>, hist)

CmInvalidateAll ==
    \E r \in {CacheManager_invalidate_all(CurC)} : CmCommit(r, "invalidate_all", <<>>, hist)

\* CacheManager.enable_cache
CmEnableCache ==
    /\ cache_enabled' = TRUE
    /\ ret' = [op |-> "enable_cache", args |-> <<>>, val |-> None, exc |-> "none",
               hit |-> FALSE]
    /\ UNCHANGED <<documents, is_index_built, tfidf_matrix, redis_data, server_up, client_set,
                   has_manager, doc_ttl, query_ttl, stats_ttl,
                   enable_cache, cache_hits, cache_misses, hist, conc>>

\* CacheManager.disable_cache
CmDisableCache ==
    /\ cache_enabled' = FALSE
    /\ ret' = [op |-> "disable_cache", args |-> <<>>, val |-> None, exc |-> "none",
               hit |-> FALSE]
    /\ hist' = IF cache_enabled
               THEN [hist EXCEPT !.kept = DOMAIN redis_data, !.offered = {}]
               ELSE hist
    /\ UNCHANGED <<documents, is_index_built, tfidf_matrix, redis_data, server_up, client_set,
                   has_manager, doc_ttl, query_ttl, stats_ttl,
                   enable_cache, cache_hits, cache_misses, conc>>

\* CacheManager.reset_metrics
CmResetMetrics ==
    /\ cache_hits' = 0
    /\ cache_misses' = 0
    /\ ret' = [op |-> "reset_metrics", args |-> <<>>, val |-> None, exc |-> "none",
               hit |-> FALSE]
    /\ UNCHANGED <<documents, is_index_built, tfidf_matrix, redis_data, server_up, client_set,
                   has_manager, doc_ttl, query_ttl, stats_ttl,
                   enable_cache, cache_enabled, hist, conc>>

\* CacheManager.__init__ over a RedisClient that has tried to connect
InitCache == Init /\ has_manager

NextCache ==
    \/ \E d \in CmDocIds : \E data \in CmDocData(d) : CmCacheDocument(d, data)
    \/ \E d \in CmDocIds : CmGetCachedDocument(d)
    \/ \E q \in Queries, results \in CmResults : CmCacheQueryResults(q, results, 1)
    \/ \E q \in Queries : CmGetCachedQueryResults(q, 1)
    \/ \E stats_data \in CmStats : CmCacheStats(stats_data)
    \/ CmGetCachedStats
    \/ \E d \in CmDocIds : CmInvalidateDocument(d)
    \/ CmInvalidateAllDocuments
    \/ CmInvalidateAllQueries
    \/ CmInvalidateAll
    \/ CmEnableCache
    \/ CmDisableCache
    \/ CmResetMetrics
    \/ ServerDown
    \/ ServerUp
    \/ \E k \in DOMAIN redis_data : Expire(k)

SpecCache == InitCache /\ [][NextCache]_vars

----------------------------------------------------------------------------
(* A CacheManager built with TTL arguments, and the time that passes on the      *)
(* server: an entry written by SETEX loses the seconds slept and is gone when    *)
(* none is left; an entry written by SET stays.                                  *)

\* the TTL arguments: the defaults, short ones, zero, negative
TtlConfigs ==
    { <<DEFAULT_DOC_TTL, DEFAULT_QUERY_TTL, DEFAULT_STATS_TTL>>, <<2, 1, 1>>, <<0, 0, 0>>,
      <<-1, -1, -1>> }

\* the lengths of a sleep: each positive TTL of the manager, or one second
SleepSeconds ==
    LET positive == {n \in {doc_ttl, query_ttl} : n > 0}
    IN IF positive = {} THEN {1} ELSE positive

TtlDocData == to_dict(Document(1, <<"dogs">>, "author"))
TtlResults == <<[doc_id |-> 1, content |-> <<"dogs">>, metadata |-> "author", score |-> 50]>>

Sleep(seconds) ==
    /\ redis_data' =
          [k \in {j \in DOMAIN redis_data :
                     redis_data[j].ttl = NoExpiry \/ redis_data[j].ttl > seconds} |->
              IF redis_data[k].ttl = NoExpiry THEN redis_data[k]
              ELSE [redis_data[k] EXCEPT !.ttl = @ - seconds]]
    /\ ret' = [op |-> "sleep", args |-> <<seconds>>, val |-> None, exc |-> "none",
               hit |-> FALSE]
    /\ UNCHANGED <<documents, is_index_built, tfidf_matrix, server_up, client_set, has_manager,
                   doc_ttl, query_ttl, stats_ttl, enable_cache, cache_enabled, cache_hits,
                   cache_misses, hist, conc>>

InitTtl ==
    /\ \E cfg \in TtlConfigs : InitWith(cfg[1], cfg[2], cfg[3])
    /\ has_manager
    /\ server_up

NextTtl ==
    \/ \E d \in CmDocIds : CmCacheDocument(d, TtlDocData)
    \/ \E d \in CmDocIds : CmGetCachedDocument(d)
    \/ \E q \in Queries : CmCacheQueryResults(q, TtlResults, 1)
    \/ \E q \in Queries : CmGetCachedQueryResults(q, 1)
    \/ \E st \in CmStats : CmCacheStats(st)
    \/ CmGetCachedStats
    \/ \E n \in SleepSeconds : Sleep(n)

SpecTtl == InitTtl /\ [][NextTtl]_vars

----------------------------------------------------------------------------
(* One engine called from two threads, without any lock: a thread inside search  *)
(* or get_document stops after the cache lookup and after the indexer call, and  *)
(* index_document and remove_document of the other thread run in between.  The   *)
(* thread's locals are in conc, with the store as it was when the call began;    *)
(* the history tells whether the store changed while the call was running.       *)

SetC(c) ==
    /\ redis_data' = c.data
    /\ client_set' = c.client
    /\ cache_hits' = c.hits
    /\ cache_misses' = c.misses

Config == <<server_up, has_manager, doc_ttl, query_ttl, stats_ttl, enable_cache, cache_enabled>>

Returned(op, args, val, exc, hit) ==
    [op |-> op, args |-> args, val |-> val, exc |-> exc, hit |-> hit]

\* SearchEngine.search, lines 184-189: the cache lookup
EngSearchLookup(query, top_n) ==
    /\ conc.pc = "idle"
    /\ CanCount
    /\ \E r \in {IF UseCache THEN CacheManager_get_cached_query_results(CurC, query, top_n)
                  ELSE Ret(CurC, [found |-> FALSE, results |-> <<>>])} :
        /\ SetC(r.c)
        /\ IF r.exc # "none"
           THEN conc' = Idle /\ ret' = Returned("search", <<query, top_n>>, None, r.exc, FALSE)
           ELSE IF r.val.found /\ r.val.results # <<>>
           THEN conc' = Idle
                /\ ret' = Returned("search", <<query, top_n>>, r.val.results, "none", TRUE)
           ELSE conc' = [Idle EXCEPT !.pc = "rank", !.query = query, !.top_n = top_n,
                                     !.corpus = documents]
                /\ ret' = NoRet
    /\ hist' = [hist EXCEPT !.raced = FALSE]
    /\ UNCHANGED <<documents, is_index_built, tfidf_matrix, Config>>

\* SearchEngine.search, lines 190-203: build the index if stale, rank, format
EngSearchRank ==
    /\ conc.pc = "rank"
    /\ \E results \in {Indexer_search(IF is_index_built THEN CurIx
                                       ELSE Indexer_build_index(CurIx).ix,
                                       conc.query, conc.top_n)} :
        /\ SetIx(results.ix)
        /\ IF results.exc # "none"
           THEN conc' = Idle
                /\ ret' = Returned("search", <<conc.query, conc.top_n>>, None, results.exc,
                                   FALSE)
           ELSE conc' = [conc EXCEPT !.pc = "write",
                                     !.results = formatted_results(results.val)]
                /\ ret' = NoRet
    /\ UNCHANGED CacheVars

\* SearchEngine.search, lines 204-211: the cache write and the return
EngSearchWrite ==
    /\ conc.pc = "write"
    /\ \E w \in {IF UseCache
                  THEN CacheManager_cache_query_results(CurC, conc.query, conc.results,
                                                        conc.top_n)
                  ELSE Ret(CurC, FALSE)} :
        /\ SetC(w.c)
        /\ ret' = Returned("search", <<conc.query, conc.top_n>>,
                           IF w.exc = "none" THEN conc.results ELSE None, w.exc, FALSE)
    /\ conc' = Idle
    /\ hist' = [hist EXCEPT !.raced = (conc.corpus # documents)]
    /\ UNCHANGED <<documents, is_index_built, tfidf_matrix, Config>>

\* SearchEngine.get_document, lines 146-157: the cache lookup
EngGetLookup(doc_id) ==
    /\ conc.pc = "idle"
    /\ CanCount
    /\ \E r \in {IF UseCache THEN CacheManager_get_cached_document(CurC, doc_id)
                  ELSE Ret(CurC, None)} :
        /\ SetC(r.c)
        /\ IF r.exc # "none"
           THEN conc' = Idle /\ ret' = Returned("get_document", <<doc_id>>, None, r.exc, FALSE)
           ELSE IF r.val # None
           THEN conc' = Idle
                /\ ret' = Returned("get_document", <<doc_id>>, from_dict(r.val), "none", TRUE)
           ELSE conc' = [Idle EXCEPT !.pc = "fetch", !.doc_id = doc_id, !.corpus = documents]
                /\ ret' = NoRet
    /\ hist' = [hist EXCEPT !.raced = FALSE]
    /\ UNCHANGED <<documents, is_index_built, tfidf_matrix, Config>>

\* SearchEngine.get_document, line 159: doc = self.indexer.get_document(doc_id)
EngGetFetch ==
    /\ conc.pc = "fetch"
    /\ conc' = [conc EXCEPT !.pc = "backfill", !.doc = Indexer_get_document(CurIx, conc.doc_id)]
    /\ ret' = NoRet
    /\ UNCHANGED <<documents, is_index_built, tfidf_matrix, CacheVars>>

\* SearchEngine.get_document, lines 160-169: the backfill and the return
EngGetBackfill ==
    /\ conc.pc = "backfill"
    /\ \E w \in {IF conc.doc # None /\ UseCache
                  THEN CacheManager_cache_document(CurC, conc.doc_id, to_dict(conc.doc))
                  ELSE Ret(CurC, FALSE)} :
        /\ SetC(w.c)
        /\ ret' = Returned("get_document", <<conc.doc_id>>,
                           IF w.exc = "none" THEN conc.doc ELSE None, w.exc, FALSE)
    /\ conc' = Idle
    /\ hist' = [hist EXCEPT !.raced = (conc.corpus # documents)]
    /\ UNCHANGED <<documents, is_index_built, tfidf_matrix, Config>>

InitRace == Init /\ has_manager /\ server_up

NextRace ==
    \/ \E d \in DocIds, b \in Bodies : IndexDocument(d, b.content, b.metadata)
    \/ \E d \in DocIds : RemoveDocument(d)
    \/ \E q \in Queries, n \in Limits : EngSearchLookup(q, n)
    \/ EngSearchRank
    \/ EngSearchWrite
    \/ \E d \in DocIds : EngGetLookup(d)
    \/ EngGetFetch
    \/ EngGetBackfill

SpecRace == InitRace /\ [][NextRace]_vars

----------------------------------------------------------------------------
(* The query cache key and the indexer's preprocessing, applied to two query     *)
(* texts and one limit; the uncached search runs on a fixed store.               *)

MaxQueryLen == 3
QueryTokens == {" ", "Cats", "cats", "!"}
QueryTexts == UNION {[1..n -> QueryTokens] : n \in 0..MaxQueryLen}

KeyCorpus ==
    <<Document(1, <<"cats", "dogs">>, "None"), Document(2, <<"dogs">>, "None")>>

\* _generate_query_key, preprocess_query and Indexer.search for each of the two texts
QueryKeys2(q1, q2, top_n) ==
    /\ ret = NoRet
    /\ ret' = [op |-> "query_keys", args |-> <<q1, q2, top_n>>,
               val |-> [key1 |-> CacheManager_generate_query_key(q1, top_n),
                        key2 |-> CacheManager_generate_query_key(q2, top_n),
                        processed1 |-> preprocess_query(q1),
                        processed2 |-> preprocess_query(q2),
                        results1 |-> Indexer_search(Ix(KeyCorpus, FALSE, <<>>), q1, top_n).val,
                        results2 |-> Indexer_search(Ix(KeyCorpus, FALSE, <<>>), q2, top_n).val],
               exc |-> "none", hit |-> FALSE]
    /\ UNCHANGED <<documents, is_index_built, tfidf_matrix, redis_data, server_up, client_set,
                   has_manager, doc_ttl, query_ttl, stats_ttl, enable_cache, cache_enabled,
                   cache_hits, cache_misses, hist, conc>>

NextKey == \E q1 \in QueryTexts, q2 \in QueryTexts, n \in Limits : QueryKeys2(q1, q2, n)

InitKey == InitCache /\ server_up

SpecKey == InitKey /\ [][NextKey]_vars

----------------------------------------------------------------------------
(* The engine's statistics while the store changes between two get_stats calls. *)
(* The history keeps the document counts the last two get_stats calls reported  *)
(* while the cache was in use.                                                  *)

StatsGetStats ==
    \E r \in {SearchEngine_get_stats(CurIx, CurC)} :
       Commit(r, "get_stats", <<>>,
              IF r.exc = "none" /\ UseCache
              THEN [hist EXCEPT !.stats_prev = hist.stats_last,
                                !.stats_last = r.val.indexer.num_documents]
              ELSE hist)

NextStats ==
    \/ \E d \in DocIds, b \in Bodies : IndexDocument(d, b.content, b.metadata)
    \/ \E d \in RemoveIds : RemoveDocument(d)
    \/ StatsGetStats
    \/ EnableCaching
    \/ DisableCaching
    \/ ServerDown
    \/ ServerUp

SpecStats == Init /\ [][NextStats]_vars

----------------------------------------------------------------------------
(* Properties *)

ResultIds(results) == [i \in 1..Len(results) |-> results[i].doc_id]

\* what search(query, top_n) returns on an engine built with enable_cache=False whose
\* store holds docs: the index is rebuilt whenever it is stale, then ranked and formatted
UncachedSearch(docs, query, top_n) ==
    SearchIndex(Ix(docs, FALSE, <<>>), CurC, query, top_n).val

\* the entry a query lookup addresses, as stored by cache_query_results
EntryOf(query, top_n) == json_loads(redis_data[CacheManager_generate_query_key(query, top_n)])

\* C1: once remove_document(d) has returned true for a document d that appeared in an
\* earlier search result, no later search returns an entry with doc_id = d
C1_RemovedNeverReturned ==
    (ret.op = "search" /\ ret.exc = "none") =>
        \A i \in 1..Len(ret.val) : ret.val[i].doc_id \notin hist.removed

\* C2: no query-result entry survives a successful add or remove: after a mutation of
\* the store whose call returned, the cache holds no query entry
C2_NoQueryEntrySurvivesMutation ==
    [][(documents' # documents /\ ret'.exc = "none") => QueryKeys(redis_data') = {}]_vars

\* C3: get_document(d) of a stored document returns the content and metadata the store
\* holds for d, from the cache as from the store
C3_GetDocumentMatchesStore ==
    (ret.op = "get_document" /\ ret.exc = "none" /\ ret.args[1] \in DocIdsOf(documents)) =>
        ret.val = Lookup(documents, ret.args[1])

\* C4: with caching enabled, search returns the identifiers, in the order, that the same
\* search returns on an engine without cache that holds the same documents
C4_CacheTransparent ==
    (ret.op = "search" /\ ret.exc = "none" /\ enable_cache /\ has_manager) =>
        ResultIds(ret.val) = ResultIds(UncachedSearch(documents, ret.args[1], ret.args[2]))

\* C5: when the backend was unreachable for the whole lifetime of an engine built with
\* enable_cache=True, no call raises
C5_UnreachableBackendNeverRaises ==
    (has_manager /\ hist.never_up) => ret.exc = "none"

\* C6: in every state, get, set, delete and keys_pattern of the RedisClient resolve to a
\* value, whatever the transport does; none raises
C6_PortNeverRaises ==
    \A d \in DocIds :
        LET key == CacheManager_generate_doc_key(d) IN
        /\ RedisClient_get(CurC, key).exc = "none"
        /\ RedisClient_set(CurC, key, None, DEFAULT_DOC_TTL).exc = "none"
        /\ RedisClient_delete(CurC, key).exc = "none"
        /\ RedisClient_keys_pattern(CurC, << <<DOC_PREFIX, "*">> >>).exc = "none"

\* C7: a call that changed the document store returns its success result (true, or the
\* count added), also when the cache write or the invalidation after it fails
C7_MutationReturnsSuccess ==
    [][documents' # documents =>
        /\ ret'.exc = "none"
        /\ IF ret'.op = "index_documents" THEN ret'.val > 0 ELSE ret'.val = TRUE]_vars

\* C9: a query lookup hits exactly when the cache holds an entry stored under the same
\* lower-cased, trimmed query text and the same limit
C9_QueryKeyByTextAndLimit ==
    [][(ret'.op = "search" /\ ret'.exc = "none" /\ enable_cache /\ has_manager /\ server_up) =>
        (ret'.hit <=> \E k \in QueryKeys(redis_data) :
                        /\ Strip(Lower(json_loads(redis_data[k]).query))
                             = Strip(Lower(ret'.args[1]))
                        /\ json_loads(redis_data[k]).top_n = ret'.args[2])]_vars

\* C9 witness: a search hit an entry that was stored under another spelling of the query
C9_Witness ==
    /\ ret.op = "search" /\ ret.exc = "none" /\ ret.hit
    /\ CacheManager_generate_query_key(ret.args[1], ret.args[2]) \in DOMAIN redis_data
    /\ EntryOf(ret.args[1], ret.args[2]).query # ret.args[1]

\* C11: after a search that missed, with caching enabled and the backend available, the
\* same search made next is counted as a hit and returns the same result list
C11_MissThenHit ==
    (ret.op = "search" /\ ret.exc = "none" /\ ~ret.hit /\ UseCache /\ server_up) =>
        \E r \in {SearchEngine_search(CurIx, CurC, ret.args[1], ret.args[2])} :
            /\ r.exc = "none"
            /\ r.c.hits = cache_hits + 1
            /\ r.val = ret.val

\* the contents of the stored documents, in the key order of the store
ContentsOf(docs) == [i \in 1..Len(docs) |-> docs[i].content]

\* C12: whenever is_index_built is true the matrix has one row per stored document, row i
\* fitted on the content of the i-th identifier of the store, and every call that changes
\* the store leaves is_index_built false
C12_BuiltIndexMatchesStore ==
    [][/\ is_index_built' => tfidf_matrix' = ContentsOf(documents')
       /\ documents' # documents => ~is_index_built']_vars

\* C12 witness: a search built the index over a store whose key order is not the order of
\* the identifiers (as after a remove and a re-add), and the rows follow the key order
C12_Witness ==
    /\ is_index_built
    /\ ret.op = "Indexer.search"
    /\ Len(documents) = 2
    /\ documents[1].doc_id > documents[2].doc_id
    /\ documents[1].content # documents[2].content
    /\ tfidf_matrix = ContentsOf(documents)

\* C13: index_document with an identifier that is already stored returns false and leaves
\* the stored documents (their content, metadata and number) as they were
C13_DuplicateAddRejected ==
    [][(ret'.op = "index_document" /\ ret'.args[1] \in DocIdsOf(documents)) =>
        /\ ret'.exc = "none"
        /\ ret'.val = FALSE
        /\ documents' = documents]_vars

\* C13 witness: index_document has just returned false for an identifier that is stored,
\* with the cache in use
C13_Witness ==
    /\ ret.op = "index_document"
    /\ ret.exc = "none"
    /\ ret.val = FALSE
    /\ ret.args[1] \in DocIdsOf(documents)
    /\ UseCache /\ server_up

C15_RemoveAbsentChangesNothing ==
    [][(ret'.op = "remove_document" /\ ret'.args[1] \notin DocIdsOf(documents)) =>
        /\ ret'.exc = "none"
        /\ ret'.val = FALSE
        /\ documents' = documents
        /\ is_index_built' = is_index_built
        /\ redis_data' = redis_data]_vars

\* C15 witness: remove_document has just returned false while the index was built and the
\* cache held a document entry and a query entry
C15_Witness ==
    /\ ret.op = "remove_document"
    /\ ret.exc = "none"
    /\ ret.val = FALSE
    /\ is_index_built
    /\ DocKeys(redis_data) # {}
    /\ QueryKeys(redis_data) # {}
    /\ UseCache /\ server_up

\* C16: on an empty store build_index returns false and search returns an empty list
\* without raising, and is_index_built is false whenever the store is empty
C16_EmptyStoreStaysStale ==
    [][/\ documents' = <<>> => ~is_index_built'
       /\ (documents = <<>> /\ ret'.op = "Indexer.build_index") => ret'.val = FALSE
       /\ (documents = <<>> /\ ret'.op = "Indexer.search") =>
              (ret'.exc = "none" /\ ret'.val = <<>>)]_vars

\* C16 witness: a search has just returned on a store that is empty after the documents
\* of a built index were removed
C16_Witness ==
    /\ ret.op = "Indexer.search"
    /\ ret.exc = "none"
    /\ documents = <<>>
    /\ tfidf_matrix # <<>>
    /\ ~is_index_built

\* the scores of the stored documents for the query of the search that just returned
ScoresOfRet == cosine_similarities(preprocess_query(ret.args[1]), tfidf_matrix)

\* the identifiers in the result of the Indexer.search that just returned
ReturnedIds == {ret.val[i].doc.doc_id : i \in 1..Len(ret.val)}

\* C17: Indexer.search with a limit of 1 or more returns its pairs in non-increasing score
\* order, every score returned is positive, and no document left out scores higher than
\* a document returned
C17_RankedByScore ==
    (ret.op = "Indexer.search" /\ ret.exc = "none" /\ ret.args[2] >= 1) =>
        /\ \A i \in 1..(Len(ret.val) - 1) : ret.val[i].score >= ret.val[i + 1].score
        /\ \A i \in 1..Len(ret.val) : ret.val[i].score > 0
        /\ \A k \in 1..Len(documents) :
              documents[k].doc_id \notin ReturnedIds =>
                  \A i \in 1..Len(ret.val) : ScoresOfRet[k] <= ret.val[i].score

\* C17 witness: a search with limit 2 over three matching documents returned two of them,
\* the first with the higher score
C17_Witness ==
    /\ ret.op = "Indexer.search"
    /\ ret.exc = "none"
    /\ ret.args[2] = 2
    /\ Len(documents) = 3
    /\ Len(ret.val) = 2
    /\ ret.val[1].score > ret.val[2].score
    /\ \A k \in 1..3 : ScoresOfRet[k] > 0

\* the position of a stored identifier in the key order of the store
PositionOf(doc_id) == CHOOSE k \in 1..Len(documents) : documents[k].doc_id = doc_id

\* C18: documents with equal positive score are returned in insertion order, and when the
\* limit cuts through a group of equal scores the earlier-inserted documents are kept
C18_TiesInInsertionOrder ==
    (ret.op = "Indexer.search" /\ ret.exc = "none" /\ ret.args[2] >= 1) =>
        /\ \A i, j \in 1..Len(ret.val) :
              (i < j /\ ret.val[i].score = ret.val[j].score) =>
                  PositionOf(ret.val[i].doc.doc_id) < PositionOf(ret.val[j].doc.doc_id)
        /\ \A k \in 1..Len(documents), i \in 1..Len(ret.val) :
              (documents[k].doc_id \notin ReturnedIds /\ ScoresOfRet[k] = ret.val[i].score) =>
                  PositionOf(ret.val[i].doc.doc_id) < k

\* C19: search returns at most limit results, for every limit of 0 or more
C19_AtMostLimitResults ==
    (ret.op = "Indexer.search" /\ ret.exc = "none") => Len(ret.val) <= ret.args[2]

\* the lookups of the CacheManager, made in the current state
Lookups ==
    {CacheManager_get_cached_document(CurC, d) : d \in DocIds}
    \cup {CacheManager_get_cached_query_results(CurC, q, n) : q \in Queries, n \in Limits}
    \cup {CacheManager_get_cached_stats(CurC)}

\* C20: while the CacheManager is enabled every lookup adds one to exactly one of hits and
\* misses; while it is disabled no lookup changes either
C20_LookupCountsOnce ==
    has_manager =>
        \A r \in Lookups :
            IF cache_enabled
            THEN \/ (r.c.hits = cache_hits + 1 /\ r.c.misses = cache_misses)
                 \/ (r.c.hits = cache_hits /\ r.c.misses = cache_misses + 1)
            ELSE r.c.hits = cache_hits /\ r.c.misses = cache_misses

\* the calls of the CacheManager that are neither a lookup nor reset_metrics
NonCountingOps ==
    {"cache_document", "cache_query_results", "cache_stats", "invalidate_document",
     "invalidate_all_documents", "invalidate_all_queries", "invalidate_all", "enable_cache",
     "disable_cache"}

\* C21: reset_metrics sets hits and misses to 0 and leaves every cache entry as it was;
\* invalidations, cache writes, enable and disable leave hits and misses as they were
C21_MetricsApartFromContents ==
    [][/\ ret'.op = "reset_metrics" =>
             (cache_hits' = 0 /\ cache_misses' = 0 /\ redis_data' = redis_data)
       /\ ret'.op \in NonCountingOps =>
             (cache_hits' = cache_hits /\ cache_misses' = cache_misses)]_vars

\* C21 witness: an invalidation has just removed an entry after a lookup was counted as a
\* hit, and the hit is still counted
C21_Witness ==
    /\ ret.op = "invalidate_document"
    /\ ret.exc = "none"
    /\ ret.val = TRUE
    /\ cache_hits = 1
    /\ QueryKeys(redis_data) # {}

\* the key a lookup addresses, from the record of the call
KeyOfLookup(r) ==
    IF r.op = "get_cached_document" THEN CacheManager_generate_doc_key(r.args[1])
    ELSE CacheManager_generate_query_key(r.args[1], r.args[2])

\* C22: while the manager is disabled every get_cached_* returns None and every cache_*
\* stores nothing; enable and disable leave the entries alone, so that an entry the cache
\* held at disable time is returned by its lookup after enable, and no key handed to
\* cache_* during the disabled window is present unless the cache held it before
C22_DisabledWindow ==
    [][/\ (~cache_enabled /\ ret'.op \in {"get_cached_document", "get_cached_stats"}) =>
             (ret'.exc = "none" /\ ret'.val = None)
       /\ (~cache_enabled /\ ret'.op = "get_cached_query_results") =>
             (ret'.exc = "none" /\ ~ret'.val.found)
       /\ (~cache_enabled /\ ret'.op \in {"cache_document", "cache_query_results",
                                           "cache_stats"}) =>
             (ret'.exc = "none" /\ ret'.val = FALSE /\ redis_data' = redis_data)
       /\ ret'.op \in {"enable_cache", "disable_cache"} => redis_data' = redis_data
       /\ (cache_enabled /\ server_up /\ ret'.op = "get_cached_document"
             /\ KeyOfLookup(ret') \in hist.kept \cap DOMAIN redis_data
             /\ Truthy(json_loads(redis_data[KeyOfLookup(ret')]))) =>
             ret'.val = json_loads(redis_data[KeyOfLookup(ret')])
       /\ (cache_enabled /\ server_up /\ ret'.op = "get_cached_query_results"
             /\ KeyOfLookup(ret') \in hist.kept \cap DOMAIN redis_data) =>
             (ret'.val.found
              /\ ret'.val.results = json_loads(redis_data[KeyOfLookup(ret')]).results)
       /\ \A k \in hist'.offered \ hist'.kept : k \notin DOMAIN redis_data']_vars

\* C22 witness: after a disabled window in which the same key was handed to cache_document,
\* a lookup returned the entry the cache held before the window
C22_Witness ==
    /\ ret.op = "get_cached_document"
    /\ ret.exc = "none"
    /\ ret.hit
    /\ cache_enabled
    /\ KeyOfLookup(ret) \in hist.kept \cap hist.offered

\* C23: with the backend reachable invalidate_all_documents returns true and removes no
\* query entry, and invalidate_all_queries returns true and removes no document entry
C23_NamespaceInvalidation ==
    [][/\ (ret'.op = "invalidate_all_documents" /\ server_up) =>
             (/\ ret'.exc = "none"
              /\ ret'.val = TRUE
              /\ \A k \in QueryKeys(redis_data) :
                     k \in DOMAIN redis_data' /\ redis_data'[k] = redis_data[k])
       /\ (ret'.op = "invalidate_all_queries" /\ server_up) =>
             (/\ ret'.exc = "none"
              /\ ret'.val = TRUE
              /\ \A k \in DocKeys(redis_data) :
                     k \in DOMAIN redis_data' /\ redis_data'[k] = redis_data[k])]_vars

\* C24: with the backend reachable invalidate_all returns, and after it no document entry
\* and no query entry remains
C24_InvalidateAllEmpties ==
    [][(ret'.op = "invalidate_all" /\ server_up) =>
          (/\ ret'.exc = "none"
           /\ DocKeys(redis_data') = {}
           /\ QueryKeys(redis_data') = {})]_vars

\* C25: with the backend reachable invalidate_document(id) returns true whether or not an
\* entry for id existed, removes the entry of id and leaves those of other documents
C25_InvalidateDocumentTrue ==
    server_up =>
        \A d \in CmDocIds :
            LET key == CacheManager_generate_doc_key(d)
                r == CacheManager_invalidate_document(CurC, d)
            IN /\ r.exc = "none"
               /\ r.val = TRUE
               /\ key \notin DocKeys(r.c.data)
               /\ \A k \in DocKeys(redis_data) :
                      k # key => (k \in DocKeys(r.c.data) /\ r.c.data[k] = redis_data[k])

\* C26: right after cache_document or cache_query_results has returned true, the lookup of
\* the same key returns the value that was written and is counted as a hit
C26_WriteThenLookup ==
    /\ (ret.op = "cache_document" /\ ret.exc = "none" /\ ret.val = TRUE) =>
          LET r == CacheManager_get_cached_document(CurC, ret.args[1])
          IN r.exc = "none" /\ r.val = ret.args[2] /\ r.c.hits = cache_hits + 1
                            /\ r.c.misses = cache_misses
    /\ (ret.op = "cache_query_results" /\ ret.exc = "none" /\ ret.val = TRUE) =>
          LET r == CacheManager_get_cached_query_results(CurC, ret.args[1], ret.args[3])
          IN r.exc = "none" /\ r.val.found /\ r.val.results = ret.args[2]
                            /\ r.c.hits = cache_hits + 1 /\ r.c.misses = cache_misses

\* C27: with the manager enabled and the backend reachable cache_stats(s) returns true and
\* the following get_cached_stats returns s
C27_StatsRoundTrip ==
    (ret.op = "cache_stats" /\ cache_enabled /\ server_up) =>
        (/\ ret.exc = "none"
         /\ ret.val = TRUE
         /\ CacheManager_get_cached_stats(CurC).val = ret.args[1])

\* C28: a get_stats that returns reports as num_documents the number of documents in the
\* store at that moment, whatever an earlier get_stats reported
C28_StatsCountCurrent ==
    (ret.op = "get_stats" /\ ret.exc = "none") =>
        ret.val.indexer.num_documents = Len(documents)

\* C28 witness: get_stats has just returned with the cache in use and the backend
\* reachable, and the get_stats before it reported another number of documents
C28_Witness ==
    /\ ret.op = "get_stats"
    /\ ret.exc = "none"
    /\ UseCache
    /\ server_up
    /\ hist.stats_prev >= 0
    /\ hist.stats_prev # Len(documents)
    /\ hist.stats_last = Len(documents)

\* C29: change_ranker with an unsupported name returns false and leaves every cached
\* entry as it was; with a supported name, in any letter case, it returns true
C29_ChangeRanker ==
    [][ret'.op = "change_ranker" =>
          (/\ ret'.exc = "none"
           /\ IF create_ranker(ret'.args[1]).exc = "none"
              THEN ret'.val = TRUE
              ELSE ret'.val = FALSE /\ redis_data' = redis_data)]_vars

\* C30: when index_document adds a document with caching enabled and the backend
\* reachable, it returns true, the document cache holds for the identifier an entry equal
\* to the stored document, and the next get_document of it is a hit
C30_IndexWritesThrough ==
    [][(/\ ret'.op = "index_document"
        /\ UseCache
        /\ server_up
        /\ ret'.args[1] \notin DocIdsOf(documents)
        /\ ret'.args[1] \in DocIdsOf(documents')) =>
          LET key == CacheManager_generate_doc_key(ret'.args[1])
              c == Cv(redis_data', client_set', cache_hits', cache_misses')
          IN /\ ret'.exc = "none"
             /\ ret'.val = TRUE
             /\ key \in DocKeys(redis_data')
             /\ json_loads(redis_data'[key]) = to_dict(Lookup(documents', ret'.args[1]))
             /\ \E r \in {SearchEngine_get_document(
                               Ix(documents', is_index_built', tfidf_matrix'), c,
                               ret'.args[1])} :
                   /\ r.exc = "none"
                   /\ r.c.hits = cache_hits' + 1
                   /\ r.c.misses = cache_misses']_vars

\* C31: with the cache in use and the backend reachable, a get_document that missed the
\* cache and found the identifier in the store has written its entry, so that the next
\* get_document of it is a hit; one that found it in neither returned None and wrote nothing
C31_MissBackfills ==
    (ret.op = "get_document" /\ ret.exc = "none" /\ ~ret.hit /\ UseCache /\ server_up) =>
        LET key == CacheManager_generate_doc_key(ret.args[1]) IN
        IF ret.args[1] \in DocIdsOf(documents)
        THEN /\ key \in DocKeys(redis_data)
             /\ \E r \in {SearchEngine_get_document(CurIx, CurC, ret.args[1])} :
                   r.exc = "none" /\ r.c.hits = cache_hits + 1
        ELSE ret.val = None /\ key \notin DocKeys(redis_data)

\* C32: every document entry and every query entry in the cache has an expiry of at most
\* the TTL of its namespace, and once a sleep of that TTL or more has passed the lookups
\* report no entry
C32_ExpiresAfterTtl ==
    /\ \A k \in DocKeys(redis_data) : redis_data[k].ttl \in 1..doc_ttl
    /\ \A k \in QueryKeys(redis_data) : redis_data[k].ttl \in 1..query_ttl
    /\ (ret.op = "sleep" /\ ret.args[1] >= doc_ttl) =>
          \A d \in CmDocIds : CacheManager_get_cached_document(CurC, d).val = None
    /\ (ret.op = "sleep" /\ ret.args[1] >= query_ttl) =>
          \A q \in Queries : ~CacheManager_get_cached_query_results(CurC, q, 1).val.found

\* C33: when the store changed while a search that missed the cache was running, then
\* once the search has returned every query entry in the cache holds the identifiers an
\* uncached search of its query returns on the store as it is now
C33_NoStaleEntryAfterRace ==
    (ret.op = "search" /\ ret.exc = "none" /\ hist.raced) =>
        \A k \in QueryKeys(redis_data) :
            LET entry == json_loads(redis_data[k])
            IN ResultIds(entry.results)
                 = ResultIds(UncachedSearch(documents, entry.query, entry.top_n))

\* C34: when remove_document(id) removed the document while a get_document(id) that missed
\* the cache was running, then once both have returned the cache holds no entry for id
C34_NoEntryAfterRemoveRace ==
    (/\ ret.op = "get_document"
     /\ ret.exc = "none"
     /\ hist.raced
     /\ ret.args[1] \notin DocIdsOf(documents)) =>
        CacheManager_generate_doc_key(ret.args[1]) \notin DocKeys(redis_data)

\* C35: a get_document of an identifier for which remove_document has returned true, and
\* which was not indexed again since, returns None
C35_RemovedStaysGone ==
    (ret.op = "get_document" /\ ret.exc = "none" /\ ret.args[1] \in hist.gone) =>
        ret.val = None

\* C36: index_documents leaves the cache entry of every identifier that was stored before
\* the call as it was, and an entry it leaves for an identifier it added holds the document
\* the store now holds
C36_BatchCachesOnlyAdded ==
    [][ret'.op = "index_documents" =>
          /\ \A d \in DocIdsOf(documents) :
                LET key == CacheManager_generate_doc_key(d) IN
                IF key \in DocKeys(redis_data)
                THEN key \in DocKeys(redis_data') /\ redis_data'[key] = redis_data[key]
                ELSE key \notin DocKeys(redis_data')
          /\ \A d \in DocIdsOf(documents') \ DocIdsOf(documents) :
                LET key == CacheManager_generate_doc_key(d) IN
                key \in DocKeys(redis_data') =>
                    json_loads(redis_data'[key]) = to_dict(Lookup(documents', d))]_vars

C38_SameKeySameQuery ==
    (ret.op = "query_keys" /\ ret.val.key1 = ret.val.key2) =>
        /\ ret.val.processed1 = ret.val.processed2
        /\ ret.val.results1 = ret.val.results2

\* C38 witness: two different texts, one in capitals and padded with blanks, share a key
\* and a search of them finds a document
C38_Witness ==
    /\ ret.op = "query_keys"
    /\ ret.val.key1 = ret.val.key2
    /\ ret.args[1] # ret.args[2]
    /\ Lower(ret.args[1]) # Lower(ret.args[2])
    /\ ret.args[1] # Lower(ret.args[1])
    /\ ret.val.results1 # <<>>

\* C10: a search whose query lookup was counted as a hit returns the cached list and
\* leaves is_index_built and tfidf_matrix as they were, for an empty list too
C10_HitLeavesIndexerUntouched ==
    [][(ret'.op = "search" /\ ret'.hit /\ ret'.exc = "none") =>
        /\ is_index_built' = is_index_built
        /\ tfidf_matrix' = tfidf_matrix
        /\ ret'.val = json_loads(
              redis_data[CacheManager_generate_query_key(ret'.args[1], ret'.args[2])]).results]_vars

\* C8: a search on an Indexer that other threads mutate ends without an index out of
\* range, and gives every document it returns the score of that document's own row in
\* the matrix the scores were computed from
C8_SearchSeesOneVersion ==
    ret.op = "Indexer.search" =>
        /\ ret.exc = "none"
        /\ \A i \in 1..Len(ret.val) :
              ret.val[i].score = Similarity(preprocess_query(ret.args[1]),
                                            ret.val[i].doc.content, ret.args[3])

====
